---- MODULE Spec2Model ----
(***************************************************************************)
(* Authentication and session lifecycle of the Genesys admin web app:      *)
(* services/authService.js (PKCE login, token store, cross-tab handoff,    *)
(* refresh scheduler) and the boot routine main() of js/app.js.            *)
(*                                                                         *)
(* Each browser tab has its own sessionStorage, URL and page (one run of   *)
(* main per page load); localStorage is shared by the tabs of the origin.  *)
(* Times are epoch milliseconds.                                           *)
(***************************************************************************)
EXTENDS Integers, Sequences, FiniteSets, TLC

VARIABLES
  now,           \* Date.now()
  config,        \* CONFIG.oauthClientId / CONFIG.oauthRedirectUri
  ss,            \* ss[t]: sessionStorage of tab t (the four keys of authService)
  handoff,       \* localStorage item gc_tab_handoff
  url,           \* url[t]: code / state query parameters of the visible URL
  pc,            \* pc[t]: position of main / ensureAuthenticatedWithMe in tab t
  tok,           \* tok[t]: the local `token.access_token` / `existing` held across await
  res,           \* res[t]: what ensureAuthenticatedWithMe returned (or threw)
  navTo,         \* navTo[t]: authorization URL assigned to window.location.href
  apiClient,     \* apiClient[t]: createApiClient has been called
  timers,        \* timers[t]: timers armed by scheduleTokenRefresh
  routerStarted, \* routerStarted[t]: router.start() has been called
  fatal,         \* fatal[t]: renderFatalError has been called
  loads,         \* page loads so far
  bootUrl,       \* bootUrl[t]: query parameters the current boot began with
  cons,          \* cons[t]: what consumeTabHandoff did in the current boot
  consumeLog,    \* the consume operations since the last publish, summed up
  tokenReqs,     \* tokenReqs[t]: requests sent to the token endpoint in this boot
  meReqs,        \* meReqs[t]: tokens carried by the identity checks of this boot
  meOk,          \* meOk[t]: tokens whose identity check succeeded in this boot
  inflight,      \* inflight[t]: the request the boot is waiting for
  initiates,     \* initiates[t]: runs of startLoginRedirect in this page load
  written,       \* written[t]: the setToken call of this boot
  failed,        \* failed[t]: the request of this boot that failed
  sent,          \* sent[t]: code_verifier carried by the token request of this boot
  lastInit,      \* lastInit[t]: the random draws of the tab's latest startLoginRedirect
  events         \* events[t]: what timers, cancel handle and refreshSession did in this page

vars == << now, config, ss, handoff, url, pc, tok, res, navTo, apiClient, timers,
           routerStarted, fatal, loads, bootUrl, cons, consumeLog, tokenReqs,
           meReqs, meOk, inflight, initiates, written, failed, sent, lastInit,
           events >>

----------------------------------------------------------------------------
(* Bounds of the model *)

Tabs == {1, 2}

\* page loads, all tabs together
MaxLoads == 4

\* the instants at which steps are taken
TimePoints == {0, 30000, 31000}

\* successful answers of the token endpoint: {access_token, expires_in (seconds)}
TokenGrants == {[access_token |-> "tok1", expires_in |-> 90],
                [access_token |-> "tok2", expires_in |-> 3600]}

\* outcomes of the two random draws of one startLoginRedirect:
\* base64UrlEncode(randomBytes(32)) and base64UrlEncode(randomBytes(16))
RandomDraws == {[verifier |-> "V1", state |-> "S1"],
                [verifier |-> "V2", state |-> "S2"]}

\* state parameters a return URL may carry (or none)
ReturnedStates == {"S1"}

\* authorization codes a return URL may carry
Codes == {"ABC123"}

\* PageSpec: the tabs that are open
PageTabs == {1}

\* PageSpec: the instants at which steps are taken
PageTimes == {0, 10000, 10500, 10501, 40000, 70000}

\* PageSpec: the fragments a loaded URL may carry
PageHashes == {"", "#/dashboards"}

\* PageSpec: successful answers of the token endpoint
PageGrants == {[access_token |-> "tok3", expires_in |-> 130]}

\* PageSpec: invocations of the cancel handle in one page
MaxCancels == 2

\* PageSpec: calls of refreshSession in one page
MaxRefresh == 1

----------------------------------------------------------------------------
(* Constants of the program *)

EXPIRY_SKEW_MS == 60 * 1000

WARNING_BEFORE_MS == 2 * 60 * 1000

HandoffMaxAgeMs == 30000

CONFIG == [oauthClientId |-> "3b89b95c-d658-463e-9280-30a5bd7f4c2c",
           oauthRedirectUri |-> "https://red-wave-0cb77561e.6.azurestaticapps.net"]

----------------------------------------------------------------------------
(* Values *)

\* getItem of a key that is not stored; also an absent query parameter
NULL == "<null>"

\* The text stored under gc_expires_at: absent, the decimal text of a number,
\* or some other text.
NullStr == [kind |-> "null", n |-> 0]

\* String(n) for a finite number n
String(n) == [kind |-> "dec", n |-> n]

\* Number(s): the number a decimal text denotes, NaN for any other text
Number(s) == IF s.kind = "dec" THEN [finite |-> TRUE, v |-> s.n]
                               ELSE [finite |-> FALSE, v |-> 0]

EmptySession == [gc_access_token |-> NULL, gc_expires_at |-> NullStr,
                 pkce_verifier |-> NULL, oauth_state |-> NULL]

\* no item under gc_tab_handoff
NoHandoff == [kind |-> "null", token |-> NULL, expiresAt |-> NullStr, ts |-> 0]

\* JSON.stringify({token, expiresAt, ts})
JsonStringify(token, expiresAt, ts) ==
  [kind |-> "json", token |-> token, expiresAt |-> expiresAt, ts |-> ts]

\* a non-empty text that JSON.parse rejects
CorruptHandoff == [kind |-> "corrupt", token |-> NULL, expiresAt |-> NullStr, ts |-> 0]

\* a URL of the app without query parameters and without fragment
NoUrl == [code |-> NULL, state |-> NULL, hash |-> ""]

NoNav == [to |-> "none", challenge |-> NULL, state |-> NULL]

NoRes == [status |-> "none", accessToken |-> NULL]

\* no timer armed; expiresAt is the value the timer callbacks close over
NoTimers == [warn |-> -1, expire |-> -1, expiresAt |-> 0]

\* one entry of events: what ran, the sessionStorage it found, its argument
Ev(name, seen, arg) == [ev |-> name, seen |-> seen, arg |-> arg]

NoCons == [ran |-> FALSE, hadSession |-> FALSE, raw |-> NoHandoff, at |-> 0,
           before |-> EmptySession, after |-> EmptySession, left |-> NoHandoff]

\* no Handoff Record has been published, or the item was overwritten since
NoLog == [active |-> FALSE, n |-> 0, finds |-> 0, adopts |-> 0, late |-> FALSE,
          again |-> FALSE]

\* min(n + 1, 2): consume operations are counted up to two
Count(n, b) == IF b /\ n < 2 THEN n + 1 ELSE n

\* the summary after one more consume, which found a record or not and
\* changed the Token Store of its tab or not
Logged(log, found, changed) ==
  IF ~log.active THEN log
  ELSE [active |-> TRUE, n |-> Count(log.n, TRUE),
        finds |-> Count(log.finds, found),
        adopts |-> Count(log.adopts, changed),
        late |-> log.late \/ (log.n >= 1 /\ (found \/ changed)),
        again |-> log.again \/ (log.finds >= 1 /\ (found \/ changed))]

\* no startLoginRedirect has drawn a verifier and a state yet
NoDraw == [verifier |-> NULL, state |-> NULL]

NoWrite == [done |-> FALSE, at |-> 0, access_token |-> NULL, expires_in |-> 0]

----------------------------------------------------------------------------
(* authService.js: pure parts *)

\* base64UrlEncode(sha256(TextEncoder.encode(verifier))) as a fixed function
S256(verifier) ==
  CASE verifier = "V1" -> "E9Mel"
    [] verifier = "V2" -> "q3Zx0"
    [] OTHER -> "other"

\* setToken that forgets the conversion of expires_in from seconds
setTokenInSeconds(s, token, t0) ==
  [s EXCEPT !.gc_access_token = token.access_token,
            !.gc_expires_at = String(t0 + token.expires_in)]

setToken(s, token, t0) ==
  [s EXCEPT !.gc_access_token = token.access_token,
            !.gc_expires_at = String(t0 + token.expires_in * 1000)]

\* getValidAccessToken comparing with > where the code has >=
getValidAccessTokenOffByOne(s, t0) ==
  IF s.gc_access_token = NULL \/ s.gc_expires_at = NullStr THEN NULL
  ELSE IF ~Number(s.gc_expires_at).finite THEN NULL
  ELSE IF t0 > Number(s.gc_expires_at).v - EXPIRY_SKEW_MS THEN NULL
  ELSE s.gc_access_token

\* getValidAccessToken without the safety margin
getValidAccessTokenNoSkew(s, t0) ==
  IF s.gc_access_token = NULL \/ s.gc_expires_at = NullStr THEN NULL
  ELSE IF ~Number(s.gc_expires_at).finite THEN NULL
  ELSE IF t0 >= Number(s.gc_expires_at).v THEN NULL
  ELSE s.gc_access_token

getValidAccessToken(s, t0) ==
  IF s.gc_access_token = NULL \/ s.gc_expires_at = NullStr THEN NULL
  ELSE IF ~Number(s.gc_expires_at).finite THEN NULL
  ELSE IF t0 >= Number(s.gc_expires_at).v - EXPIRY_SKEW_MS THEN NULL
  ELSE s.gc_access_token

\* clearAuthSession that leaves the Session Record in place
clearAuthSessionKeepsToken(s) ==
  [s EXCEPT !.pkce_verifier = NULL, !.oauth_state = NULL]

clearAuthSession(s) ==
  [s EXCEPT !.gc_access_token = NULL, !.gc_expires_at = NullStr,
            !.pkce_verifier = NULL, !.oauth_state = NULL]

\* saveTabHandoff without the test for a stored session
saveTabHandoffAlways(s, h, t0) ==
  JsonStringify(s.gc_access_token, s.gc_expires_at, t0)

\* saveTabHandoff: the new content of gc_tab_handoff
saveTabHandoff(s, h, t0) ==
  IF s.gc_access_token = NULL \/ s.gc_expires_at = NullStr THEN h
  ELSE JsonStringify(s.gc_access_token, s.gc_expires_at, t0)

\* consumeTabHandoff comparing the age with >= where the code has >
consumeTabHandoffOffByOne(s, h, t0) ==
  IF s.gc_access_token # NULL THEN [ss |-> s, ls |-> h]
  ELSE IF h.kind = "null" THEN [ss |-> s, ls |-> h]
  ELSE IF h.kind # "json" THEN [ss |-> s, ls |-> NoHandoff]
  ELSE IF t0 - h.ts >= HandoffMaxAgeMs THEN [ss |-> s, ls |-> NoHandoff]
  ELSE [ss |-> [s EXCEPT !.gc_access_token = h.token,
                         !.gc_expires_at = h.expiresAt],
        ls |-> NoHandoff]

\* consumeTabHandoff returning on a stale record without removing it
consumeTabHandoffKeepsStale(s, h, t0) ==
  IF s.gc_access_token # NULL THEN [ss |-> s, ls |-> h]
  ELSE IF h.kind = "null" THEN [ss |-> s, ls |-> h]
  ELSE IF h.kind # "json" THEN [ss |-> s, ls |-> NoHandoff]
  ELSE IF t0 - h.ts > HandoffMaxAgeMs THEN [ss |-> s, ls |-> h]
  ELSE [ss |-> [s EXCEPT !.gc_access_token = h.token,
                         !.gc_expires_at = h.expiresAt],
        ls |-> NoHandoff]

\* consumeTabHandoff returning from the catch block without removing the item
consumeTabHandoffKeepsCorrupt(s, h, t0) ==
  IF s.gc_access_token # NULL THEN [ss |-> s, ls |-> h]
  ELSE IF h.kind = "null" THEN [ss |-> s, ls |-> h]
  ELSE IF h.kind # "json" THEN [ss |-> s, ls |-> h]
  ELSE IF t0 - h.ts > HandoffMaxAgeMs THEN [ss |-> s, ls |-> NoHandoff]
  ELSE [ss |-> [s EXCEPT !.gc_access_token = h.token,
                         !.gc_expires_at = h.expiresAt],
        ls |-> NoHandoff]

\* consumeTabHandoff without the early return of a tab that holds a token
consumeTabHandoffOverrides(s, h, t0) ==
  IF h.kind = "null" THEN [ss |-> s, ls |-> h]
  ELSE IF h.kind # "json" THEN [ss |-> s, ls |-> NoHandoff]
  ELSE IF t0 - h.ts > HandoffMaxAgeMs THEN [ss |-> s, ls |-> NoHandoff]
  ELSE [ss |-> [s EXCEPT !.gc_access_token = h.token,
                         !.gc_expires_at = h.expiresAt],
        ls |-> NoHandoff]

\* consumeTabHandoff giving the adopted token the age of the record on top
consumeTabHandoffRenews(s, h, t0) ==
  IF s.gc_access_token # NULL THEN [ss |-> s, ls |-> h]
  ELSE IF h.kind = "null" THEN [ss |-> s, ls |-> h]
  ELSE IF h.kind # "json" THEN [ss |-> s, ls |-> NoHandoff]
  ELSE IF t0 - h.ts > HandoffMaxAgeMs THEN [ss |-> s, ls |-> NoHandoff]
  ELSE [ss |-> [s EXCEPT !.gc_access_token = h.token,
                         !.gc_expires_at = String(Number(h.expiresAt).v + (t0 - h.ts))],
        ls |-> NoHandoff]

\* consumeTabHandoff: the new sessionStorage and the new gc_tab_handoff
consumeTabHandoff(s, h, t0) ==
  IF s.gc_access_token # NULL THEN [ss |-> s, ls |-> h]
  ELSE IF h.kind = "null" THEN [ss |-> s, ls |-> h]
  ELSE IF h.kind # "json" THEN [ss |-> s, ls |-> NoHandoff]
  ELSE IF t0 - h.ts > HandoffMaxAgeMs THEN [ss |-> s, ls |-> NoHandoff]
  ELSE [ss |-> [s EXCEPT !.gc_access_token = h.token,
                         !.gc_expires_at = h.expiresAt],
        ls |-> NoHandoff]

\* !x for a configuration value: the empty text, or absent
Missing(x) == x = "" \/ x = NULL

\* buildPkce with the challenge method "plain"
buildPkcePlain(v) == [verifier |-> v, challenge |-> v]

\* buildPkce, v being base64UrlEncode(randomBytes(32))
buildPkce(v) == [verifier |-> v, challenge |-> S256(v)]

\* startLoginRedirect that tests the configuration after storing
startLoginRedirectChecksLate(cfg, s, v, st) ==
  IF Missing(cfg.oauthClientId) \/ Missing(cfg.oauthRedirectUri)
  THEN [threw |-> TRUE,
        ss |-> [s EXCEPT !.pkce_verifier = v, !.oauth_state = st],
        nav |-> NoNav]
  ELSE [threw |-> FALSE,
        ss |-> [s EXCEPT !.pkce_verifier = v, !.oauth_state = st],
        nav |-> [to |-> "authorize", challenge |-> buildPkce(v).challenge,
                 state |-> st]]

\* startLoginRedirect that keeps a stored verifier and state
startLoginRedirectKeepsPending(cfg, s, v, st) ==
  IF Missing(cfg.oauthClientId) \/ Missing(cfg.oauthRedirectUri)
  THEN [threw |-> TRUE, ss |-> s, nav |-> NoNav]
  ELSE [threw |-> FALSE,
        ss |-> IF s.pkce_verifier # NULL THEN s
               ELSE [s EXCEPT !.pkce_verifier = v, !.oauth_state = st],
        nav |-> [to |-> "authorize", challenge |-> buildPkce(v).challenge,
                 state |-> st]]

\* startLoginRedirect that stores the challenge in place of the verifier
startLoginRedirectStoresChallenge(cfg, s, v, st) ==
  IF Missing(cfg.oauthClientId) \/ Missing(cfg.oauthRedirectUri)
  THEN [threw |-> TRUE, ss |-> s, nav |-> NoNav]
  ELSE [threw |-> FALSE,
        ss |-> [s EXCEPT !.pkce_verifier = buildPkce(v).challenge,
                         !.oauth_state = st],
        nav |-> [to |-> "authorize", challenge |-> buildPkce(v).challenge,
                 state |-> st]]

\* startLoginRedirect that navigates and leaves the writes to a page that is
\* already being replaced
startLoginRedirectNavigatesFirst(cfg, s, v, st) ==
  IF Missing(cfg.oauthClientId) \/ Missing(cfg.oauthRedirectUri)
  THEN [threw |-> TRUE, ss |-> s, nav |-> NoNav]
  ELSE [threw |-> FALSE,
        ss |-> s,
        nav |-> [to |-> "authorize", challenge |-> buildPkce(v).challenge,
                 state |-> st]]

\* startLoginRedirect with the random verifier v and state st:
\* whether it threw, the new sessionStorage, and the URL navigated to
startLoginRedirect(cfg, s, v, st) ==
  IF Missing(cfg.oauthClientId) \/ Missing(cfg.oauthRedirectUri)
  THEN [threw |-> TRUE, ss |-> s, nav |-> NoNav]
  ELSE [threw |-> FALSE,
        ss |-> [s EXCEPT !.pkce_verifier = buildPkce(v).verifier,
                         !.oauth_state = st],
        nav |-> [to |-> "authorize", challenge |-> buildPkce(v).challenge,
                 state |-> st]]

\* refreshSession that does not clear the session first
refreshSessionKeepsSession(cfg, s, v, st) ==
  LET r == startLoginRedirect(cfg, s, v, st)
  IN [log |-> << Ev("refreshSession.clearAuthSession", s, 0),
                 Ev("refreshSession.startLoginRedirect", s, 0) >>,
      ss |-> r.ss, nav |-> r.nav, threw |-> r.threw]

\* refreshSession: what ran, the new sessionStorage, the URL navigated to,
\* and whether the returned promise rejects
refreshSession(cfg, s, v, st) ==
  LET s1 == clearAuthSession(s)
      r == startLoginRedirect(cfg, s1, v, st)
  IN [log |-> << Ev("refreshSession.clearAuthSession", s, 0),
                 Ev("refreshSession.startLoginRedirect", s1, 0) >>,
      ss |-> r.ss, nav |-> r.nav, threw |-> r.threw]

\* the remaining seconds cut off instead of rounded
secsLeftTruncated(expiresAt, t0) == (expiresAt - t0) \div 1000

\* Math.round((expiresAt - Date.now()) / 1000)
secsLeft(expiresAt, t0) == (expiresAt - t0 + 500) \div 1000

\* the expiry callback clearing the session after the redirect is prepared
expiryCallbackInitiatesFirst(cfg, s, v, st, hasOnSessionExpired) ==
  LET r == startLoginRedirect(cfg, s, v, st)
      s2 == clearAuthSession(r.ss)
  IN [log |-> (IF hasOnSessionExpired
               THEN << Ev("onSessionExpired", s, 0) >> ELSE << >>)
              \o << Ev("expiry.startLoginRedirect", s, 0),
                    Ev("expiry.clearAuthSession", r.ss, 0) >>,
      ss |-> s2, nav |-> r.nav, threw |-> r.threw]

\* the callback of the expiry timer: what ran, the new sessionStorage, the
\* URL navigated to, and whether the callback's promise rejects
expiryCallback(cfg, s, v, st, hasOnSessionExpired) ==
  LET s1 == clearAuthSession(s)
      r == startLoginRedirect(cfg, s1, v, st)
  IN [log |-> (IF hasOnSessionExpired
               THEN << Ev("onSessionExpired", s, 0) >> ELSE << >>)
              \o << Ev("expiry.clearAuthSession", s, 0),
                    Ev("expiry.startLoginRedirect", s1, 0) >>,
      ss |-> r.ss, nav |-> r.nav, threw |-> r.threw]

\* scheduleTokenRefresh arming the warning timer with a delay of 0 as well
scheduleTokenRefreshWarnsAtZero(s, t0, hasOnExpiringSoon) ==
  IF s.gc_expires_at = NullStr THEN NoTimers
  ELSE IF ~Number(s.gc_expires_at).finite THEN NoTimers
  ELSE LET expiresAt == Number(s.gc_expires_at).v
           warningIn == expiresAt - WARNING_BEFORE_MS - t0
           expireIn  == expiresAt - EXPIRY_SKEW_MS - t0
       IN [warn   |-> IF warningIn >= 0 /\ hasOnExpiringSoon THEN t0 + warningIn ELSE -1,
           expire |-> IF expireIn > 0 THEN t0 + expireIn ELSE -1,
           expiresAt |-> expiresAt]

\* scheduleTokenRefresh whose expiry timer waits for expiresAt itself
scheduleTokenRefreshNoSkew(s, t0, hasOnExpiringSoon) ==
  IF s.gc_expires_at = NullStr THEN NoTimers
  ELSE IF ~Number(s.gc_expires_at).finite THEN NoTimers
  ELSE LET expiresAt == Number(s.gc_expires_at).v
           warningIn == expiresAt - WARNING_BEFORE_MS - t0
           expireIn  == expiresAt - t0
       IN [warn   |-> IF warningIn > 0 /\ hasOnExpiringSoon THEN t0 + warningIn ELSE -1,
           expire |-> IF expireIn > 0 THEN t0 + expireIn ELSE -1,
           expiresAt |-> expiresAt]

\* scheduleTokenRefresh: the due times of the timers it arms (-1: not armed)
scheduleTokenRefresh(s, t0, hasOnExpiringSoon) ==
  IF s.gc_expires_at = NullStr THEN NoTimers
  ELSE IF ~Number(s.gc_expires_at).finite THEN NoTimers
  ELSE LET expiresAt == Number(s.gc_expires_at).v
           warningIn == expiresAt - WARNING_BEFORE_MS - t0
           expireIn  == expiresAt - EXPIRY_SKEW_MS - t0
       IN [warn   |-> IF warningIn > 0 /\ hasOnExpiringSoon THEN t0 + warningIn ELSE -1,
           expire |-> IF expireIn > 0 THEN t0 + expireIn ELSE -1,
           expiresAt |-> expiresAt]

\* the handle clearing only the first timer of the list
cancelTimersFirstOnly(tm) ==
  IF tm.warn # -1 THEN [tm EXCEPT !.warn = -1] ELSE [tm EXCEPT !.expire = -1]

\* the handle returned by scheduleTokenRefresh: timers.forEach(clearTimeout)
cancelTimers(tm) == [tm EXCEPT !.warn = -1, !.expire = -1]

\* the timers of tm that are armed
Armed(tm) == (IF tm.warn # -1 THEN 1 ELSE 0) + (IF tm.expire # -1 THEN 1 ELSE 0)

----------------------------------------------------------------------------
(* Inputs *)

\* query parameters a page load may carry
Urls == {NoUrl} \cup [code : Codes, state : ReturnedStates \cup {NULL}, hash : {""}]

\* PageSpec: the same, with or without a fragment (hash routing)
PageUrls == {[u EXCEPT !.hash = h] : u \in Urls, h \in PageHashes}

\* what the token endpoint answers, or a transport failure of the fetch
TokenResponses ==
  {[kind |-> "ok", access_token |-> g.access_token, expires_in |-> g.expires_in] :
     g \in TokenGrants}
    \cup {[kind |-> "http_error", access_token |-> NULL, expires_in |-> 0],
          [kind |-> "network_error", access_token |-> NULL, expires_in |-> 0]}

\* PageSpec: the CONFIG a deployment may ship (config.js is edited per
\* deployment): complete, client id empty, redirect URI absent
Configs == {CONFIG,
            [CONFIG EXCEPT !.oauthClientId = ""],
            [CONFIG EXCEPT !.oauthRedirectUri = NULL]}

\* PageSpec: what the token endpoint answers
PageResponses ==
  {[kind |-> "ok", access_token |-> g.access_token, expires_in |-> g.expires_in] :
     g \in PageGrants}
    \cup {[kind |-> "http_error", access_token |-> NULL, expires_in |-> 0]}

\* p.get("state") || "" and sessionStorage.getItem(K_OAUTH_STATE) || ""
OrEmpty(x) == IF x = NULL THEN "" ELSE x

\* the test of the return leg without the comparison of the two states
stateRejectedOnlyIfMissing(returnedState, expectedState) ==
  expectedState = ""

\* the test of the return leg that rejects the returned state
stateRejected(returnedState, expectedState) ==
  expectedState = "" \/ returnedState # expectedState

\* exchangeCodeForToken throws: the fetch rejected, or resp.ok is false
exchangeThrows(r) == r.kind = "network_error" \/ r.kind # "ok"

\* usersMe that returns the body whatever the status
usersMeNeverThrows(ok) == FALSE

\* usersMe throws: the fetch rejected, or resp.ok is false
usersMeThrows(ok) == ~ok

\* the cleaning of the return leg done with clearAuthSession
removeTransientAll(s) == clearAuthSession(s)

\* "Clean transient": the two removeItem calls after the exchange
removeTransient(s) == [s EXCEPT !.pkce_verifier = NULL, !.oauth_state = NULL]

\* main without the early return
mainNeverReturnsEarly(status) == FALSE

\* the early return of main on the result of ensureAuthenticatedWithMe
mainReturnsEarly(status) == status = "redirecting"

\* the URL replaced by origin + pathname alone
clearQueryDropsHash(u) == NoUrl

\* clearQueryPreserveHash: the URL put in place of u, origin + pathname + hash
clearQueryPreserveHash(u) == [u EXCEPT !.code = NULL, !.state = NULL]

\* main before router.start: a URL with a fragment is replaced by the pathname
clearLeftoverHash(u) == IF u.hash # "" THEN NoUrl ELSE u

\* the boot steps with the reuse of a valid token tried before the code
bootPathReuseFirst(p, existing) ==
  IF existing # NULL THEN "B" ELSE IF p.code # NULL THEN "A" ELSE "C"

\* the step of ensureAuthenticatedWithMe taken on the query parameters p when
\* getValidAccessToken gives existing: A return leg, B reuse, C login
bootPath(p, existing) ==
  IF p.code # NULL THEN "A" ELSE IF existing # NULL THEN "B" ELSE "C"

----------------------------------------------------------------------------
(* Init *)

Init ==
  /\ now = 0
  /\ config = CONFIG
  /\ ss = [t \in Tabs |-> EmptySession]
  /\ handoff = NoHandoff
  /\ url = [t \in Tabs |-> NoUrl]
  /\ pc = [t \in Tabs |-> "closed"]
  /\ tok = [t \in Tabs |-> NULL]
  /\ res = [t \in Tabs |-> NoRes]
  /\ navTo = [t \in Tabs |-> NoNav]
  /\ apiClient = [t \in Tabs |-> FALSE]
  /\ timers = [t \in Tabs |-> NoTimers]
  /\ routerStarted = [t \in Tabs |-> FALSE]
  /\ fatal = [t \in Tabs |-> FALSE]
  /\ loads = 0
  /\ bootUrl = [t \in Tabs |-> NoUrl]
  /\ cons = [t \in Tabs |-> NoCons]
  /\ consumeLog = NoLog
  /\ tokenReqs = [t \in Tabs |-> 0]
  /\ meReqs = [t \in Tabs |-> << >>]
  /\ meOk = [t \in Tabs |-> {}]
  /\ inflight = [t \in Tabs |-> "none"]
  /\ initiates = [t \in Tabs |-> 0]
  /\ written = [t \in Tabs |-> NoWrite]
  /\ failed = [t \in Tabs |-> "none"]
  /\ sent = [t \in Tabs |-> NULL]
  /\ lastInit = [t \in Tabs |-> NoDraw]
  /\ events = [t \in Tabs |-> << >>]

----------------------------------------------------------------------------
(* Environment *)

\* time passes
Tick(d) ==
  /\ d > now
  /\ now' = d
  /\ UNCHANGED << config, ss, handoff, url, pc, tok, res, navTo, apiClient, timers,
                  routerStarted, fatal, loads, bootUrl, cons, consumeLog, tokenReqs,
                  meReqs, meOk, inflight, initiates, written, failed, sent,
                  lastInit, events >>

\* Tab t loads the app with query parameters u (first visit, reload, or the
\* identity provider redirecting back): a new page, whose script runs main().
\* sessionStorage survives the load; everything of the old page is gone.
\* Loads happen while no boot is under way in the tab.
Load(t, u) ==
  /\ pc[t] \in {"closed", "done", "running"}
  /\ loads < MaxLoads
  /\ loads' = loads + 1
  /\ url' = [url EXCEPT ![t] = u]
  /\ pc' = [pc EXCEPT ![t] = "boot"]
  /\ tok' = [tok EXCEPT ![t] = NULL]
  /\ res' = [res EXCEPT ![t] = NoRes]
  /\ navTo' = [navTo EXCEPT ![t] = NoNav]
  /\ apiClient' = [apiClient EXCEPT ![t] = FALSE]
  /\ timers' = [timers EXCEPT ![t] = NoTimers]
  /\ routerStarted' = [routerStarted EXCEPT ![t] = FALSE]
  /\ fatal' = [fatal EXCEPT ![t] = FALSE]
  /\ bootUrl' = [bootUrl EXCEPT ![t] = u]
  /\ cons' = [cons EXCEPT ![t] = NoCons]
  /\ tokenReqs' = [tokenReqs EXCEPT ![t] = 0]
  /\ meReqs' = [meReqs EXCEPT ![t] = << >>]
  /\ meOk' = [meOk EXCEPT ![t] = {}]
  /\ inflight' = [inflight EXCEPT ![t] = "none"]
  /\ initiates' = [initiates EXCEPT ![t] = 0]
  /\ written' = [written EXCEPT ![t] = NoWrite]
  /\ failed' = [failed EXCEPT ![t] = "none"]
  /\ sent' = [sent EXCEPT ![t] = NULL]
  /\ events' = [events EXCEPT ![t] = << >>]
  /\ UNCHANGED << now, config, ss, handoff, consumeLog, lastInit >>

\* The text stored under gc_tab_handoff is damaged (truncated, or overwritten by
\* something other than this app) and no longer parses.
CorruptStorage ==
  /\ handoff.kind = "json"
  /\ handoff' = CorruptHandoff
  /\ consumeLog' = NoLog
  /\ UNCHANGED << now, config, ss, url, pc, tok, res, navTo, apiClient, timers,
                  routerStarted, fatal, loads, bootUrl, cons, tokenReqs, meReqs,
                  meOk, inflight, initiates, written, failed, sent, lastInit,
                  events >>

----------------------------------------------------------------------------
(* ensureAuthenticatedWithMe *)

\* `await startLoginRedirect(); return { status: "redirecting" }` on the
\* sessionStorage s, with the random verifier v and state st
FinishWithRedirect(t, s, v, st) ==
  LET r == startLoginRedirect(config, s, v, st)
  IN /\ ss' = [ss EXCEPT ![t] = r.ss]
     /\ navTo' = [navTo EXCEPT ![t] = r.nav]
     /\ initiates' = [initiates EXCEPT ![t] = @ + 1]
     /\ lastInit' = [lastInit EXCEPT ![t] =
                       IF r.threw THEN @ ELSE [verifier |-> v, state |-> st]]
     /\ res' = [res EXCEPT ![t] =
                  [status |-> IF r.threw THEN "error" ELSE "redirecting",
                   accessToken |-> NULL]]
     /\ inflight' = [inflight EXCEPT ![t] = "none"]
     /\ pc' = [pc EXCEPT ![t] = "main"]

\* `await usersMe(accessToken)`: the request is sent and the boot waits
SendUsersMe(t, accessToken, at) ==
  /\ meReqs' = [meReqs EXCEPT ![t] = Append(@, accessToken)]
  /\ tok' = [tok EXCEPT ![t] = accessToken]
  /\ inflight' = [inflight EXCEPT ![t] = "me"]
  /\ pc' = [pc EXCEPT ![t] = at]

\* From the call up to the first await on the network, or to the return.
Boot(t) ==
  \E rnd \in RandomDraws :
    /\ pc[t] = "boot"
    /\ LET c == consumeTabHandoff(ss[t], handoff, now)
           s1 == c.ss
           p == url[t]
           returnedState == OrEmpty(p.state)
           expectedState == OrEmpty(s1.oauth_state)
           existing == getValidAccessToken(s1, now)
       IN /\ handoff' = c.ls
          /\ cons' = [cons EXCEPT ![t] =
                        [ran |-> TRUE, hadSession |-> ss[t].gc_access_token # NULL,
                         raw |-> handoff, at |-> now, before |-> ss[t],
                         after |-> s1, left |-> c.ls]]
          /\ consumeLog' = Logged(consumeLog,
                                   ss[t].gc_access_token = NULL /\ handoff.kind # "null",
                                   s1 # ss[t])
          /\ IF bootPath(p, existing) = "A"
             THEN IF stateRejected(returnedState, expectedState)
                  THEN /\ FinishWithRedirect(t, clearAuthSession(s1), rnd.verifier, rnd.state)
                       /\ UNCHANGED << tok, tokenReqs, meReqs, sent >>
                  ELSE IF s1.pkce_verifier = NULL
                  THEN /\ FinishWithRedirect(t, clearAuthSession(s1), rnd.verifier, rnd.state)
                       /\ UNCHANGED << tok, tokenReqs, meReqs, sent >>
                  ELSE /\ ss' = [ss EXCEPT ![t] = s1]
                       /\ tokenReqs' = [tokenReqs EXCEPT ![t] = @ + 1]
                       /\ sent' = [sent EXCEPT ![t] = s1.pkce_verifier]
                       /\ inflight' = [inflight EXCEPT ![t] = "token"]
                       /\ pc' = [pc EXCEPT ![t] = "exchanging"]
                       /\ UNCHANGED << tok, meReqs, res, navTo, initiates, lastInit >>
             ELSE IF bootPath(p, existing) = "B"
                  THEN /\ ss' = [ss EXCEPT ![t] = s1]
                       /\ SendUsersMe(t, existing, "identB")
                       /\ UNCHANGED << tokenReqs, res, navTo, initiates, sent, lastInit >>
                  ELSE /\ FinishWithRedirect(t, s1, rnd.verifier, rnd.state)
                       /\ UNCHANGED << tok, tokenReqs, meReqs, sent >>
    /\ UNCHANGED << now, config, url, apiClient, timers, routerStarted, fatal,
                    loads, bootUrl, meOk, written, failed, events >>

\* The fetch of exchangeCodeForToken settles with r; on success up to the
\* await of usersMe, otherwise through the catch block to the return.
ExchangeSettle(t, r) ==
  \E rnd \in RandomDraws :
    /\ pc[t] = "exchanging"
    /\ failed' = [failed EXCEPT ![t] = IF r.kind = "ok" THEN @ ELSE "exchange"]
    /\ IF exchangeThrows(r)
       THEN /\ FinishWithRedirect(t, clearAuthSession(ss[t]), rnd.verifier, rnd.state)
            /\ UNCHANGED << tok, meReqs, url, written >>
       ELSE LET s1 == setToken(ss[t], r, now)
                s2 == removeTransient(s1)
            IN /\ ss' = [ss EXCEPT ![t] = s2]
               /\ written' = [written EXCEPT ![t] =
                                [done |-> TRUE, at |-> now,
                                 access_token |-> r.access_token,
                                 expires_in |-> r.expires_in]]
               /\ url' = [url EXCEPT ![t] = clearQueryPreserveHash(@)]
               /\ SendUsersMe(t, r.access_token, "identA")
               /\ UNCHANGED << res, navTo, initiates, lastInit >>
    /\ UNCHANGED << now, config, handoff, apiClient, timers, routerStarted, fatal,
                    loads, bootUrl, cons, consumeLog, tokenReqs, meOk, sent, events >>

\* the identity check sent once more, in place, after its first failure
IdentSettleRetries(t, ok) ==
  \E rnd \in RandomDraws :
    /\ pc[t] \in {"identA", "identB"}
    /\ failed' = [failed EXCEPT ![t] = IF ok THEN @ ELSE "identity"]
    /\ meOk' = [meOk EXCEPT ![t] = IF ok THEN @ \cup {tok[t]} ELSE @]
    /\ IF usersMeThrows(ok) /\ Len(meReqs[t]) < 2
       THEN /\ meReqs' = [meReqs EXCEPT ![t] = Append(@, tok[t])]
            /\ UNCHANGED << ss, navTo, initiates, lastInit, res, inflight, pc >>
       ELSE IF usersMeThrows(ok)
       THEN /\ FinishWithRedirect(t, clearAuthSession(ss[t]), rnd.verifier, rnd.state)
            /\ UNCHANGED meReqs
       ELSE /\ res' = [res EXCEPT ![t] =
                         [status |-> "authenticated", accessToken |-> tok[t]]]
            /\ inflight' = [inflight EXCEPT ![t] = "none"]
            /\ pc' = [pc EXCEPT ![t] = "main"]
            /\ UNCHANGED << ss, navTo, initiates, lastInit, meReqs >>
    /\ UNCHANGED << now, config, handoff, url, tok, apiClient, timers,
                    routerStarted, fatal, loads, bootUrl, cons, consumeLog,
                    tokenReqs, written, sent, events >>

\* The fetch of usersMe settles: ok, or a non-success status / transport failure.
IdentSettle(t, ok) ==
  \E rnd \in RandomDraws :
    /\ pc[t] \in {"identA", "identB"}
    /\ failed' = [failed EXCEPT ![t] = IF ok THEN @ ELSE "identity"]
    /\ meOk' = [meOk EXCEPT ![t] = IF ok THEN @ \cup {tok[t]} ELSE @]
    /\ IF usersMeThrows(ok)
       THEN FinishWithRedirect(t, clearAuthSession(ss[t]), rnd.verifier, rnd.state)
       ELSE /\ res' = [res EXCEPT ![t] =
                         [status |-> "authenticated", accessToken |-> tok[t]]]
            /\ inflight' = [inflight EXCEPT ![t] = "none"]
            /\ pc' = [pc EXCEPT ![t] = "main"]
            /\ UNCHANGED << ss, navTo, initiates, lastInit >>
    /\ UNCHANGED << now, config, handoff, url, tok, apiClient, timers,
                    routerStarted, fatal, loads, bootUrl, cons, consumeLog,
                    tokenReqs, meReqs, written, sent, events >>

----------------------------------------------------------------------------
(* app.js: main *)

\* main resumes with the result of ensureAuthenticatedWithMe, up to the
\* await of fetchCustomers, or to its return, or to the catch handler.
MainResume(t) ==
  /\ pc[t] = "main"
  /\ IF res[t].status = "error"
     THEN /\ fatal' = [fatal EXCEPT ![t] = TRUE]
          /\ pc' = [pc EXCEPT ![t] = "done"]
          /\ UNCHANGED apiClient
     ELSE IF mainReturnsEarly(res[t].status)
     THEN /\ pc' = [pc EXCEPT ![t] = "done"]
          /\ UNCHANGED << apiClient, fatal >>
     ELSE /\ apiClient' = [apiClient EXCEPT ![t] = TRUE]
          /\ pc' = [pc EXCEPT ![t] = "customers"]
          /\ UNCHANGED fatal
  /\ cons' = [cons EXCEPT ![t] = NoCons]
  /\ bootUrl' = [bootUrl EXCEPT ![t] = NoUrl]
  /\ tok' = [tok EXCEPT ![t] = NULL]
  /\ tokenReqs' = [tokenReqs EXCEPT ![t] = 0]
  /\ meReqs' = [meReqs EXCEPT ![t] = << >>]
  /\ meOk' = [meOk EXCEPT ![t] = {}]
  /\ written' = [written EXCEPT ![t] = NoWrite]
  /\ failed' = [failed EXCEPT ![t] = "none"]
  /\ sent' = [sent EXCEPT ![t] = NULL]
  /\ UNCHANGED << now, config, ss, handoff, url, res, navTo, timers,
                  routerStarted, loads, consumeLog, inflight, initiates, lastInit,
                  events >>

\* fetchCustomers has settled (either way): session monitoring, navigation, router.
MainStart(t) ==
  /\ pc[t] = "customers"
  /\ timers' = [timers EXCEPT ![t] = scheduleTokenRefresh(ss[t], now, TRUE)]
  /\ url' = [url EXCEPT ![t] = clearLeftoverHash(@)]
  /\ routerStarted' = [routerStarted EXCEPT ![t] = TRUE]
  /\ pc' = [pc EXCEPT ![t] = "running"]
  /\ UNCHANGED << now, config, ss, handoff, tok, res, navTo, apiClient,
                  fatal, loads, bootUrl, cons, consumeLog, tokenReqs, meReqs, meOk,
                  inflight, initiates, written, failed, sent, lastInit, events >>

----------------------------------------------------------------------------
(* Cross-tab handoff: publish *)

\* A page of the running app calls saveTabHandoff.
Publish(t) ==
  /\ pc[t] = "running"
  /\ handoff' = saveTabHandoff(ss[t], handoff, now)
  /\ consumeLog' = IF ss[t].gc_access_token # NULL
                    THEN [NoLog EXCEPT !.active = TRUE] ELSE consumeLog
  /\ UNCHANGED << now, config, ss, url, pc, tok, res, navTo, apiClient, timers,
                  routerStarted, fatal, loads, bootUrl, cons, tokenReqs, meReqs,
                  meOk, inflight, initiates, written, failed, sent, lastInit,
                  events >>

----------------------------------------------------------------------------
Next ==
  \/ \E d \in TimePoints : Tick(d)
  \/ \E t \in Tabs, u \in Urls : Load(t, u)
  \/ CorruptStorage
  \/ \E t \in Tabs : Boot(t)
  \/ \E t \in Tabs, r \in TokenResponses : ExchangeSettle(t, r)
  \/ \E t \in Tabs, ok \in BOOLEAN : IdentSettle(t, ok)
  \/ \E t \in Tabs : MainResume(t)
  \/ \E t \in Tabs : MainStart(t)
  \/ \E t \in Tabs : Publish(t)

Spec == Init /\ [][Next]_vars

----------------------------------------------------------------------------
(* The page after boot: timers, cancel handle, refreshSession *)

\* the entries of log called name
CountEv(log, name) == Cardinality({i \in 1..Len(log) : log[i].ev = name})

\* The warning timer of tab t fires: onExpiringSoon(secsLeft). Of two timers
\* of one page the one due first runs first, and of two due at the same
\* instant the one armed first (the warning timer). The entry of the log
\* keeps the clock of the callback next to its argument.
WarnFires(t) ==
  /\ timers[t].warn # -1
  /\ now >= timers[t].warn
  /\ timers[t].expire = -1 \/ timers[t].warn <= timers[t].expire
  /\ timers' = [timers EXCEPT ![t].warn = -1]
  /\ events' = [events EXCEPT ![t] =
                  Append(@, Ev("onExpiringSoon", ss[t],
                               [secsLeft |-> secsLeft(timers[t].expiresAt, now),
                                at |-> now]))]
  /\ UNCHANGED << now, config, ss, handoff, url, pc, tok, res, navTo, apiClient,
                  routerStarted, fatal, loads, bootUrl, cons, consumeLog, tokenReqs,
                  meReqs, meOk, inflight, initiates, written, failed, sent,
                  lastInit >>

\* The expiry timer of tab t fires (after a warning timer that is due no
\* later): onSessionExpired(), clearAuthSession(), startLoginRedirect().
\* Nothing else of the page writes sessionStorage while startLoginRedirect
\* awaits buildPkce, so the callback is one step.
ExpireFires(t) ==
  \E rnd \in RandomDraws :
    /\ timers[t].expire # -1
    /\ now >= timers[t].expire
    /\ timers[t].warn = -1 \/ timers[t].warn > timers[t].expire
    /\ LET r == expiryCallback(config, ss[t], rnd.verifier, rnd.state, TRUE)
       IN /\ ss' = [ss EXCEPT ![t] = r.ss]
          /\ navTo' = [navTo EXCEPT ![t] = IF r.threw THEN @ ELSE r.nav]
          /\ lastInit' = [lastInit EXCEPT ![t] =
                            IF r.threw THEN @
                            ELSE [verifier |-> rnd.verifier, state |-> rnd.state]]
          /\ events' = [events EXCEPT ![t] = @ \o r.log]
    /\ timers' = [timers EXCEPT ![t].expire = -1]
    /\ initiates' = [initiates EXCEPT ![t] = @ + 1]
    /\ UNCHANGED << now, config, handoff, url, pc, tok, res, apiClient,
                    routerStarted, fatal, loads, bootUrl, cons, consumeLog,
                    tokenReqs, meReqs, meOk, inflight, written, failed, sent >>

\* The handle returned by scheduleTokenRefresh is invoked in the page of tab t.
Cancel(t) ==
  /\ pc[t] = "running"
  /\ CountEv(events[t], "cancel") < MaxCancels
  /\ timers' = [timers EXCEPT ![t] = cancelTimers(@)]
  /\ events' = [events EXCEPT ![t] =
                  Append(@, Ev("cancel", ss[t],
                               Armed(timers[t]) - Armed(cancelTimers(timers[t]))))]
  /\ UNCHANGED << now, config, ss, handoff, url, pc, tok, res, navTo, apiClient,
                  routerStarted, fatal, loads, bootUrl, cons, consumeLog, tokenReqs,
                  meReqs, meOk, inflight, initiates, written, failed, sent,
                  lastInit >>

\* The app calls refreshSession in the page of tab t.
RefreshSession(t) ==
  \E rnd \in RandomDraws :
    /\ pc[t] = "running"
    /\ CountEv(events[t], "refreshSession.clearAuthSession") < MaxRefresh
    /\ LET r == refreshSession(config, ss[t], rnd.verifier, rnd.state)
       IN /\ ss' = [ss EXCEPT ![t] = r.ss]
          /\ navTo' = [navTo EXCEPT ![t] = IF r.threw THEN @ ELSE r.nav]
          /\ lastInit' = [lastInit EXCEPT ![t] =
                            IF r.threw THEN @
                            ELSE [verifier |-> rnd.verifier, state |-> rnd.state]]
          /\ events' = [events EXCEPT ![t] = @ \o r.log]
    /\ initiates' = [initiates EXCEPT ![t] = @ + 1]
    /\ UNCHANGED << now, config, handoff, url, pc, tok, res, apiClient, timers,
                    routerStarted, fatal, loads, bootUrl, cons, consumeLog,
                    tokenReqs, meReqs, meOk, inflight, written, failed, sent >>

\* The page of tab t is torn down (the tab is about to load another document):
\* its timers and everything else of the page are gone, sessionStorage stays.
Unload(t) ==
  /\ pc[t] = "running"
  /\ pc' = [pc EXCEPT ![t] = "done"]
  /\ timers' = [timers EXCEPT ![t] = NoTimers]
  /\ navTo' = [navTo EXCEPT ![t] = NoNav]
  /\ events' = [events EXCEPT ![t] = << >>]
  /\ UNCHANGED << now, config, ss, handoff, url, tok, res, apiClient,
                  routerStarted, fatal, loads, bootUrl, cons, consumeLog, tokenReqs,
                  meReqs, meOk, inflight, initiates, written, failed, sent,
                  lastInit >>

\* A deployment replaces config.js while no page of the app is running; the
\* pages loaded from then on import the CONFIG c.
Deploy(c) ==
  /\ \A t \in Tabs : pc[t] \in {"closed", "done"}
  /\ c # config
  /\ config' = c
  /\ UNCHANGED << now, ss, handoff, url, pc, tok, res, navTo, apiClient, timers,
                  routerStarted, fatal, loads, bootUrl, cons, consumeLog, tokenReqs,
                  meReqs, meOk, inflight, initiates, written, failed, sent,
                  lastInit, events >>

PageNext ==
  \/ \E d \in PageTimes : Tick(d)
  \/ \E t \in PageTabs, u \in PageUrls : Load(t, u)
  \/ \E c \in Configs : Deploy(c)
  \/ \E t \in PageTabs : Boot(t)
  \/ \E t \in PageTabs, r \in PageResponses : ExchangeSettle(t, r)
  \/ \E t \in PageTabs, ok \in BOOLEAN : IdentSettle(t, ok)
  \/ \E t \in PageTabs : MainResume(t)
  \/ \E t \in PageTabs : MainStart(t)
  \/ \E t \in PageTabs : WarnFires(t)
  \/ \E t \in PageTabs : ExpireFires(t)
  \/ \E t \in PageTabs : Cancel(t)
  \/ \E t \in PageTabs : RefreshSession(t)
  \/ \E t \in PageTabs : Unload(t)

PageSpec == Init /\ [][PageNext]_vars

----------------------------------------------------------------------------
(* Properties *)

\* ensureAuthenticatedWithMe has just returned (or thrown) in tab t
Returned(t) == pc[t] = "main"

\* the stored Pending Authorization is the one of the redirect of this page
PendingIsNew(t) ==
  /\ navTo[t].to = "authorize"
  /\ ss[t].oauth_state # NULL
  /\ ss[t].oauth_state = navTo[t].state
  /\ ss[t].pkce_verifier # NULL
  /\ S256(ss[t].pkce_verifier) = navTo[t].challenge

NoSessionRecord(t) ==
  ss[t].gc_access_token = NULL /\ ss[t].gc_expires_at = NullStr

\* the fail-closed restart: nothing of the session left, Initiate run once,
\* result redirecting
Restarted(t) ==
  /\ NoSessionRecord(t)
  /\ initiates[t] = 1
  /\ PendingIsNew(t)
  /\ res[t] = [status |-> "redirecting", accessToken |-> NULL]

\* the boot of tab t began with a code in the URL and with no stored state, or
\* with a stored state other than the returned one
StateMismatch(t) ==
  /\ cons[t].ran
  /\ bootUrl[t].code # NULL
  /\ \/ cons[t].before.oauth_state = NULL
     \/ cons[t].before.oauth_state # bootUrl[t].state

\* C1: a boot with a code in the URL and a missing or different stored state
\* sends nothing to the token endpoint, ends at once, leaves no Session Record,
\* has run Initiate once (the stored Pending Authorization is the new one) and
\* returns redirecting.
C1_StateMismatchRestarts ==
  \A t \in Tabs :
    StateMismatch(t) => tokenReqs[t] = 0 /\ Returned(t) /\ Restarted(t)

\* a stored state and a different returned state, the boot over
C1_Witness ==
  \E t \in Tabs :
    /\ StateMismatch(t)
    /\ cons[t].before.oauth_state # NULL
    /\ bootUrl[t].state # NULL
    /\ Returned(t)
    /\ res[t].status = "redirecting"

\* C2: getValidAccessToken returns the stored token exactly when a Session
\* Record is stored and now < expiresAt - 60000, and null otherwise.
C2_ValidExactlyBeforeSkew ==
  \A t \in Tabs :
    LET s == ss[t]
        stored == s.gc_access_token # NULL /\ s.gc_expires_at.kind = "dec"
    IN getValidAccessToken(s, now) =
         IF stored /\ now < s.gc_expires_at.n - 60000
         THEN s.gc_access_token ELSE NULL

\* a stored token with expiresAt = now + 60000, for which the answer is null
C2_Witness ==
  \E t \in Tabs :
    /\ ss[t].gc_access_token # NULL
    /\ ss[t].gc_expires_at.kind = "dec"
    /\ ss[t].gc_expires_at.n = now + 60000
    /\ getValidAccessToken(ss[t], now) = NULL

\* C3: after a successful exchange and a successful identity check the boot
\* returns authenticated with the returned access_token, the Token Store holds
\* it with expiresAt = (time of the write) + expires_in * 1000, and neither
\* verifier nor state is stored.
C3_SuccessfulReturn ==
  \A t \in Tabs :
    (Returned(t) /\ written[t].done /\ meOk[t] # {}) =>
      /\ res[t] = [status |-> "authenticated",
                   accessToken |-> written[t].access_token]
      /\ ss[t].gc_access_token = written[t].access_token
      /\ ss[t].gc_expires_at.kind = "dec"
      /\ ss[t].gc_expires_at.n = written[t].at + written[t].expires_in * 1000
      /\ ss[t].pkce_verifier = NULL
      /\ ss[t].oauth_state = NULL

\* a return leg that ended authenticated, the identity check having taken time
C3_Witness ==
  \E t \in Tabs :
    /\ Returned(t)
    /\ written[t].done
    /\ meOk[t] # {}
    /\ written[t].at < now
    /\ res[t].status = "authenticated"

\* C4: on the return leg with a matching state (the token request was sent),
\* a failure of the exchange or of the identity check ends the boot with the
\* fail-closed restart; authenticated is not returned.
C4_FailureRestarts ==
  \A t \in Tabs :
    (tokenReqs[t] = 1 /\ failed[t] # "none") => Returned(t) /\ Restarted(t)

\* the identity check failed after a successful exchange
C4_Witness ==
  \E t \in Tabs :
    /\ tokenReqs[t] = 1
    /\ written[t].done
    /\ failed[t] = "identity"
    /\ Returned(t)

\* the token that passes the validity check after the consume step of the boot
ValidAtBoot(t) ==
  LET s == cons[t].after
  IN /\ s.gc_access_token # NULL
     /\ s.gc_expires_at.kind = "dec"
     /\ cons[t].at < s.gc_expires_at.n - 60000

\* C5: a boot without a code makes exactly one identity check, with the stored
\* token, if that token passes the validity check: on success it returns
\* authenticated with it and sessionStorage is as it was, on failure it
\* restarts fail-closed. Otherwise it makes no identity check and runs Initiate.
C5_ReuseOrInitiate ==
  \A t \in Tabs :
    (cons[t].ran /\ bootUrl[t].code = NULL) =>
      /\ tokenReqs[t] = 0
      /\ IF ValidAtBoot(t)
         THEN /\ meReqs[t] = << cons[t].after.gc_access_token >>
              /\ \/ /\ pc[t] = "identB"
                    /\ res[t].status = "none"
                    /\ ss[t] = cons[t].after
                 \/ /\ Returned(t)
                    /\ failed[t] = "none"
                    /\ res[t] = [status |-> "authenticated",
                                 accessToken |-> cons[t].after.gc_access_token]
                    /\ ss[t] = cons[t].after
                 \/ /\ Returned(t)
                    /\ failed[t] = "identity"
                    /\ Restarted(t)
         ELSE /\ meReqs[t] = << >>
              /\ Returned(t)
              /\ initiates[t] = 1
              /\ PendingIsNew(t)
              /\ res[t].status = "redirecting"
              /\ ss[t].gc_access_token = cons[t].after.gc_access_token
              /\ ss[t].gc_expires_at = cons[t].after.gc_expires_at

\* a stored token that no longer passes the validity check: Initiate, no request
C5_Witness ==
  \E t \in Tabs :
    /\ cons[t].ran
    /\ bootUrl[t].code = NULL
    /\ cons[t].after.gc_access_token # NULL
    /\ ~ValidAtBoot(t)
    /\ meReqs[t] = << >>
    /\ Returned(t)

\* C6: authenticated with token T is returned only after an identity check
\* carrying T has succeeded in this boot, and nothing is returned while a
\* request of the boot is pending.
C6_AuthenticatedAfterIdentityCheck ==
  \A t \in Tabs :
    /\ (Returned(t) /\ res[t].status = "authenticated")
          => res[t].accessToken \in meOk[t]
    /\ inflight[t] # "none" => res[t].status = "none"
    /\ res[t].status # "none" => inflight[t] = "none"

\* authenticated by reuse of a stored token
C6_Witness ==
  \E t \in Tabs :
    /\ Returned(t)
    /\ res[t].status = "authenticated"
    /\ ~written[t].done
    /\ res[t].accessToken \in meOk[t]

\* C7: on the result redirecting main stops: no API client, no timer armed,
\* no router, for the rest of the page load.
C7_RedirectingIsTerminal ==
  \A t \in Tabs :
    res[t].status = "redirecting" =>
      /\ ~apiClient[t]
      /\ timers[t] = NoTimers
      /\ ~routerStarted[t]
      /\ pc[t] \in {"main", "done"}

\* main has returned on the result redirecting
C7_Witness ==
  \E t \in Tabs : res[t].status = "redirecting" /\ pc[t] = "done"

C9_SecondConsumeFindsNothing == ~consumeLog.late

\* C9 as amended: after one publish the record is adopted at most once, and
\* once a consume has read the record no later consume finds a record or
\* changes its Token Store.
C9_AtMostOneAdoption ==
  consumeLog.adopts <= 1 /\ ~consumeLog.again

\* two consumes after one publish, the first of which read the record
C9_Witness ==
  /\ consumeLog.active
  /\ consumeLog.n = 2
  /\ consumeLog.finds = 1
  /\ consumeLog.adopts = 1
  /\ ~consumeLog.late

\* C10: a consume that reads a stored item (the tab held no session) leaves
\* no Handoff Record behind, adopted or stale or unparseable.
C10_ReadDeletes ==
  \A t \in Tabs :
    (cons[t].ran /\ cons[t].before.gc_access_token = NULL
       /\ cons[t].raw.kind # "null") =>
      cons[t].left.kind = "null"

\* an unparseable item has been read and removed
C10_Witness ==
  \E t \in Tabs :
    /\ cons[t].ran
    /\ cons[t].before.gc_access_token = NULL
    /\ cons[t].raw.kind = "corrupt"
    /\ cons[t].left.kind = "null"

\* the contents gc_tab_handoff may have: none, unparseable, or a record
\* published at one of the instants with one of the tokens
HandoffContents ==
  {NoHandoff, CorruptHandoff} \cup
  {JsonStringify(g.access_token, String(ts + g.expires_in * 1000), ts) :
     g \in TokenGrants, ts \in TimePoints}

\* C11: the consume step of a boot whose tab already holds a Session Record
\* leaves sessionStorage as it was, and would for every content of the Handoff
\* Record; with no Handoff Record stored the consume step changes nothing and
\* the boot goes on to the exchange, the identity check or Initiate.
C11_SessionKeptByConsume ==
  \A t \in Tabs :
    cons[t].ran =>
      /\ cons[t].hadSession =>
            /\ cons[t].after = cons[t].before
            /\ \A h \in HandoffContents :
                  consumeTabHandoff(cons[t].before, h, cons[t].at).ss = cons[t].before
      /\ cons[t].raw.kind = "null" =>
            /\ cons[t].after = cons[t].before
            /\ cons[t].left = NoHandoff
            /\ tokenReqs[t] > 0 \/ meReqs[t] # << >> \/ initiates[t] > 0

\* a tab holding a Session Record has booted while a fresh record was stored
C11_Witness ==
  \E t \in Tabs :
    /\ cons[t].ran
    /\ cons[t].hadSession
    /\ cons[t].raw.kind = "json"
    /\ cons[t].at - cons[t].raw.ts <= 30000
    /\ cons[t].after = cons[t].before
    /\ cons[t].left = cons[t].raw

\* the CONFIG of the running deployment lacks the client id or the redirect URI
ConfigIncomplete ==
  Missing(config.oauthClientId) \/ Missing(config.oauthRedirectUri)

\* the boot of tab t reached Initiate with no code in the URL and no valid token
BootFellThrough(t) ==
  cons[t].ran /\ bootUrl[t].code = NULL /\ ~ValidAtBoot(t)

\* C12: with the client id or the redirect URI empty or absent,
\* startLoginRedirect throws and leaves sessionStorage as it found it and
\* navigates nowhere, for every stored state and every random draw; a boot
\* that reaches Initiate then ends with the error, not with redirecting, the
\* stored Pending Authorization still the one the boot began with (or removed
\* by the clearing that preceded Initiate), and main shows the fatal error.
C12_ConfigErrorBeforeAnything ==
  \A t \in Tabs :
    /\ ConfigIncomplete =>
          \A rnd \in RandomDraws :
            startLoginRedirect(config, ss[t], rnd.verifier, rnd.state)
              = [threw |-> TRUE, ss |-> ss[t], nav |-> NoNav]
    /\ (ConfigIncomplete /\ Returned(t) /\ initiates[t] > 0) =>
          /\ res[t] = [status |-> "error", accessToken |-> NULL]
          /\ navTo[t] = NoNav
          /\ IF BootFellThrough(t)
             THEN ss[t] = cons[t].after
             ELSE ss[t] = clearAuthSession(cons[t].after)
    /\ (res[t].status = "error" /\ pc[t] = "done") =>
          fatal[t] /\ ~apiClient[t] /\ ~routerStarted[t] /\ navTo[t] = NoNav

\* a boot under an incomplete CONFIG has ended with the error, the Pending
\* Authorization of an earlier redirect still stored
C12_Witness ==
  \E t \in Tabs :
    /\ ConfigIncomplete
    /\ Returned(t)
    /\ initiates[t] = 1
    /\ res[t].status = "error"
    /\ ss[t].pkce_verifier # NULL
    /\ ss[t].pkce_verifier = cons[t].before.pkce_verifier

\* C13: scheduleTokenRefresh called now, with expiresAt = now + D stored, arms
\* the warning timer exactly when D > 120000, with delay D - 120000, and the
\* expiry timer exactly when D > 60000, with delay D - 60000; with no
\* expiresAt stored it arms nothing and its handle changes nothing.
C13_TimerDelays ==
  \A t \in Tabs :
    LET r == scheduleTokenRefresh(ss[t], now, TRUE)
    IN IF ss[t].gc_expires_at.kind = "dec"
       THEN LET D == ss[t].gc_expires_at.n - now
            IN /\ (r.warn # -1) <=> (D > 120000)
               /\ (r.warn # -1) => (r.warn - now = D - 120000)
               /\ (r.expire # -1) <=> (D > 60000)
               /\ (r.expire # -1) => (r.expire - now = D - 60000)
       ELSE /\ r.warn = -1
            /\ r.expire = -1
            /\ cancelTimers(r) = r

\* main has just armed the timers with D = 130000: delays 10000 and 70000
C13_Witness ==
  \E t \in Tabs :
    /\ pc[t] = "running"
    /\ events[t] = << >>
    /\ ss[t].gc_expires_at.kind = "dec"
    /\ ss[t].gc_expires_at.n = now + 130000
    /\ timers[t].warn = now + 10000
    /\ timers[t].expire = now + 70000

\* what the expiry timer's callback logs
ExpiryEvents == {"onSessionExpired", "expiry.clearAuthSession",
                 "expiry.startLoginRedirect"}

\* C14: the expiry timer's callback runs onSessionExpired() (the Session
\* Record still as the timer found it), then clearAuthSession, then
\* startLoginRedirect on the cleared storage, and nothing of it in another
\* order; from then on the page holds no Session Record and, the CONFIG being
\* complete, the Pending Authorization of a redirect generated after it.
C14_ExpiryOrder ==
  \A t \in Tabs :
    LET e == events[t]
    IN \A i \in 1..Len(e) :
         /\ e[i].ev = "onSessionExpired" =>
               /\ i + 2 <= Len(e)
               /\ e[i + 1].ev = "expiry.clearAuthSession"
               /\ e[i + 1].seen = e[i].seen
               /\ e[i + 2].ev = "expiry.startLoginRedirect"
               /\ e[i + 2].seen = clearAuthSession(e[i].seen)
               /\ NoSessionRecord(t)
               /\ ~ConfigIncomplete => PendingIsNew(t)
         /\ e[i].ev = "expiry.clearAuthSession" =>
               i > 1 /\ e[i - 1].ev = "onSessionExpired"
         /\ e[i].ev = "expiry.startLoginRedirect" =>
               i > 2 /\ e[i - 2].ev = "onSessionExpired"

\* the expiry timer has fired on a stored Session Record and Pending
\* Authorization, under a complete CONFIG
C14_Witness ==
  \E t \in Tabs :
    /\ ~ConfigIncomplete
    /\ Len(events[t]) >= 3
    /\ events[t][Len(events[t]) - 2].ev = "onSessionExpired"
    /\ events[t][Len(events[t]) - 2].seen.gc_access_token # NULL
    /\ NoSessionRecord(t)
    /\ PendingIsNew(t)

\* C15: once the handle has been invoked no timer callback runs in the page
\* any more (no onExpiringSoon, no onSessionExpired, no clearing and no
\* Initiate by the expiry timer), no timer is armed, and a further invocation
\* of the handle clears nothing.
C15_CancelStopsTimers ==
  \A t \in Tabs :
    LET e == events[t]
    IN /\ \A i, j \in 1..Len(e) :
            (i < j /\ e[i].ev = "cancel") =>
              /\ e[j].ev \notin ExpiryEvents \cup {"onExpiringSoon"}
              /\ e[j].ev = "cancel" => e[j].arg = 0
       /\ (\E i \in 1..Len(e) : e[i].ev = "cancel") =>
            timers[t].warn = -1 /\ timers[t].expire = -1

\* the handle was invoked twice with both timers armed, and the time at which
\* the expiry timer was due has come
C15_Witness ==
  \E t \in Tabs :
    /\ Len(events[t]) = 2
    /\ events[t][1].ev = "cancel"
    /\ events[t][1].arg = 2
    /\ events[t][2].ev = "cancel"
    /\ now >= timers[t].expiresAt - EXPIRY_SKEW_MS
    /\ ss[t].gc_access_token # NULL

\* C16: every pair of buildPkce has challenge = S256(verifier), S256 being
\* base64url without padding of the SHA-256 of the verifier's bytes, and the
\* challenge of the authorization URL a page navigates to is the S256 of the
\* verifier stored as Pending Authorization.
C16_ChallengeOfStoredVerifier ==
  /\ \A rnd \in RandomDraws :
       /\ buildPkce(rnd.verifier).verifier = rnd.verifier
       /\ buildPkce(rnd.verifier).challenge = S256(rnd.verifier)
  /\ \A t \in Tabs :
       navTo[t].to = "authorize" =>
         /\ ss[t].pkce_verifier # NULL
         /\ navTo[t].challenge = S256(ss[t].pkce_verifier)

\* a redirect prepared by the expiry timer or by refreshSession
C16_Witness ==
  \E t \in Tabs :
    /\ navTo[t].to = "authorize"
    /\ events[t] # << >>
    /\ ss[t].pkce_verifier = "V2"
    /\ navTo[t].challenge = "q3Zx0"

\* the Pending Authorization the boot of tab t began with is no longer stored:
\* removed, or replaced by the one of the redirect of this boot
PendingGone(t) ==
  \/ ss[t].pkce_verifier = NULL /\ ss[t].oauth_state = NULL
  \/ initiates[t] >= 1 /\ PendingIsNew(t)

\* the boot of tab t ended authenticated by reuse of a stored or adopted token
ReusedToken(t) ==
  bootUrl[t].code = NULL /\ res[t].status = "authenticated"

\* the boot of tab t began with a Pending Authorization stored and has ended
\* authenticated or redirecting
BootWithPendingEnded(t) ==
  /\ Returned(t)
  /\ res[t].status \in {"authenticated", "redirecting"}
  /\ cons[t].ran
  /\ cons[t].before.pkce_verifier # NULL

\* C17 as stated: a boot that began with a Pending Authorization stored ends
\* (authenticated or redirecting) with it removed or replaced by a newly
\* generated one.
C17_PendingDestroyedByBoot ==
  \A t \in Tabs : BootWithPendingEnded(t) => PendingGone(t)

\* C17 as amended: a boot that began with a Pending Authorization stored ends
\* with it removed or replaced by a newly generated one, unless the boot ends
\* authenticated by reuse of a valid token (no code in the URL); that boot
\* leaves the Pending Authorization stored as it was.
C17_PendingDestroyedUnlessReuse ==
  \A t \in Tabs :
    BootWithPendingEnded(t) =>
      IF ReusedToken(t)
      THEN /\ ss[t].pkce_verifier = cons[t].before.pkce_verifier
           /\ ss[t].oauth_state = cons[t].before.oauth_state
      ELSE PendingGone(t)

\* a boot without a code that began with a Pending Authorization and an
\* expired token has replaced the Pending Authorization
C17_Witness ==
  \E t \in Tabs :
    /\ Returned(t)
    /\ cons[t].ran
    /\ cons[t].before.pkce_verifier # NULL
    /\ cons[t].before.gc_access_token # NULL
    /\ bootUrl[t].code = NULL
    /\ res[t].status = "redirecting"
    /\ ss[t].pkce_verifier # cons[t].before.pkce_verifier
    /\ PendingGone(t)

RefreshJustRan(t) ==
  /\ Len(events[t]) >= 2
  /\ events[t][Len(events[t]) - 1].ev = "refreshSession.clearAuthSession"
  /\ events[t][Len(events[t])].ev = "refreshSession.startLoginRedirect"

\* C20: after refreshSession, whatever was stored before, no Session Record is
\* stored and getValidAccessToken returns null; Initiate ran on the cleared
\* storage; with a complete CONFIG the Pending Authorization of the redirect
\* just prepared is stored, with an incomplete one nothing is stored at all.
C20_RefreshSession ==
  \A t \in Tabs :
    RefreshJustRan(t) =>
      /\ NoSessionRecord(t)
      /\ getValidAccessToken(ss[t], now) = NULL
      /\ events[t][Len(events[t])].seen
            = clearAuthSession(events[t][Len(events[t]) - 1].seen)
      /\ IF ConfigIncomplete
         THEN ss[t] = EmptySession
         ELSE PendingIsNew(t) /\ ss[t].pkce_verifier = lastInit[t].verifier

\* refreshSession was called with a valid token stored and the CONFIG
\* incomplete: the Session Record is gone
C20_Witness ==
  \E t \in Tabs :
    /\ RefreshJustRan(t)
    /\ ConfigIncomplete
    /\ getValidAccessToken(events[t][Len(events[t]) - 1].seen, now) # NULL
    /\ NoSessionRecord(t)

----------------------------------------------------------------------------
(* Expiry timer, validity check, warning argument *)

\* C21: every call of scheduleTokenRefresh made while a Session Record with a
\* finite expiresAt is stored arms an expiry timer, whatever the distance
\* between now and expiresAt: in a running page whose handle was not invoked,
\* in which no timer callback has run and refreshSession was not called, the
\* expiry timer is armed (onSessionExpired and the clearing are still to come).
C21_ExpiryTimerArmed ==
  \A t \in Tabs :
    (/\ pc[t] = "running"
     /\ events[t] = << >>
     /\ ss[t].gc_expires_at.kind = "dec")
      => timers[t].expire # -1

\* the expiry timer of tab t is armed for the Session Record now stored
ArmedForCurrent(t) ==
  /\ timers[t].expire # -1
  /\ ss[t].gc_access_token # NULL
  /\ ss[t].gc_expires_at.kind = "dec"
  /\ ss[t].gc_expires_at.n = timers[t].expiresAt

\* C22: the expiry timer and the validity check use the same instant: while
\* an expiry timer armed for the stored Session Record has not reached its due
\* time getValidAccessToken returns the token, and from the due time on (the
\* states in which the callback runs) it returns null.
C22_TimerAndValidityAgree ==
  \A t \in Tabs :
    ArmedForCurrent(t) =>
      /\ timers[t].expire = timers[t].expiresAt - EXPIRY_SKEW_MS
      /\ now < timers[t].expire =>
           getValidAccessToken(ss[t], now) = ss[t].gc_access_token
      /\ now >= timers[t].expire => getValidAccessToken(ss[t], now) = NULL

\* the expiry timer is due and has not run yet: the token is still stored and
\* the validity check rejects it
C22_Witness ==
  \E t \in Tabs :
    /\ ArmedForCurrent(t)
    /\ now = timers[t].expire
    /\ pc[t] = "running"
    /\ getValidAccessToken(ss[t], now) = NULL

\* in the page of tab t, onExpiringSoon comes before onSessionExpired
WarningBeforeExpiry(t) ==
  \A i, j \in 1..Len(events[t]) :
    (events[t][i].ev = "onExpiringSoon" /\ events[t][j].ev = "onSessionExpired")
      => i < j

\* secs is the time from the instant at to expiresAt, rounded to seconds
RoundedRemaining(secs, expiresAt, at) ==
  /\ 1000 * secs - 500 <= expiresAt - at
  /\ expiresAt - at < 1000 * secs + 500

\* C23 as stated: onExpiringSoon is invoked before onSessionExpired, its
\* argument is the time remaining to expiresAt at the clock of the callback
\* rounded to seconds, at most 120, and smaller than 120 whenever the warning
\* timer fires late.
C23_WarningArgument ==
  \A t \in Tabs :
    /\ WarningBeforeExpiry(t)
    /\ \A j \in 1..Len(events[t]) :
         events[t][j].ev = "onExpiringSoon" =>
           LET a == events[t][j].arg
               due == timers[t].expiresAt - WARNING_BEFORE_MS
           IN /\ RoundedRemaining(a.secsLeft, timers[t].expiresAt, a.at)
              /\ a.secsLeft <= 120
              /\ a.at > due => a.secsLeft < 120

\* C23, amended: the same, but the argument is smaller than 120 only when the
\* warning timer fires more than 500 ms late; up to 500 ms late it is 120.
C23_WarningArgumentRounded ==
  \A t \in Tabs :
    /\ WarningBeforeExpiry(t)
    /\ \A j \in 1..Len(events[t]) :
         events[t][j].ev = "onExpiringSoon" =>
           LET a == events[t][j].arg
               due == timers[t].expiresAt - WARNING_BEFORE_MS
           IN /\ RoundedRemaining(a.secsLeft, timers[t].expiresAt, a.at)
              /\ a.secsLeft <= 120
              /\ a.at > due + 500 => a.secsLeft < 120
              /\ a.at <= due + 500 => a.secsLeft = 120

\* the warning timer fired 500 ms late with argument 120, and the expiry
\* timer fired after it
C23_Witness ==
  \E t \in Tabs :
    /\ Len(events[t]) >= 2
    /\ events[t][1].ev = "onExpiringSoon"
    /\ events[t][1].arg.at = timers[t].expiresAt - WARNING_BEFORE_MS + 500
    /\ events[t][1].arg.secsLeft = 120
    /\ events[t][2].ev = "onSessionExpired"

----------------------------------------------------------------------------
(* Cross-tab handoff: two boots running consumeTabHandoff at the same time *)

\* Each tab runs its script on its own thread; sessionStorage belongs to the
\* tab, localStorage is shared, and nothing orders the storage operations of
\* one tab against those of another. RaceSpec follows consumeTabHandoff
\* statement by statement in both tabs, from the state in which both pages
\* have been loaded and some tab of the origin has published a record. The
\* rest of the boot does not touch localStorage and is followed in Spec; the
\* summary consumeLog of successive consume operations is not kept here.

\* a Session Record a racing tab may hold already
RaceOwnSession == setToken(EmptySession, [access_token |-> "tok2", expires_in |-> 3600], 0)

\* what gc_tab_handoff may hold at the instant t0: an unparseable text, or a
\* record published at an instant up to t0
RaceRecords(t0) ==
  {CorruptHandoff} \cup
  {JsonStringify(g.access_token, String(ts + g.expires_in * 1000), ts) :
     g \in TokenGrants, ts \in {x \in TimePoints : x <= t0}}

RaceInit ==
  /\ now \in TimePoints
  /\ handoff \in RaceRecords(now)
  /\ ss \in [Tabs -> {EmptySession, RaceOwnSession}]
  /\ pc = [t \in Tabs |-> "boot"]
  /\ loads = Cardinality(Tabs)
  /\ config = CONFIG
  /\ url = [t \in Tabs |-> NoUrl]
  /\ tok = [t \in Tabs |-> NULL]
  /\ res = [t \in Tabs |-> NoRes]
  /\ navTo = [t \in Tabs |-> NoNav]
  /\ apiClient = [t \in Tabs |-> FALSE]
  /\ timers = [t \in Tabs |-> NoTimers]
  /\ routerStarted = [t \in Tabs |-> FALSE]
  /\ fatal = [t \in Tabs |-> FALSE]
  /\ bootUrl = [t \in Tabs |-> NoUrl]
  /\ cons = [t \in Tabs |-> NoCons]
  /\ consumeLog = NoLog
  /\ tokenReqs = [t \in Tabs |-> 0]
  /\ meReqs = [t \in Tabs |-> << >>]
  /\ meOk = [t \in Tabs |-> {}]
  /\ inflight = [t \in Tabs |-> "none"]
  /\ initiates = [t \in Tabs |-> 0]
  /\ written = [t \in Tabs |-> NoWrite]
  /\ failed = [t \in Tabs |-> "none"]
  /\ sent = [t \in Tabs |-> NULL]
  /\ lastInit = [t \in Tabs |-> NoDraw]
  /\ events = [t \in Tabs |-> << >>]

\* the expiresAt taken from what gc_tab_handoff holds at the time of the write
adoptedExpiresAtReread(raw, h) == h.expiresAt

\* the expiresAt stored at line 39 by a consume that read raw at line 32,
\* whatever gc_tab_handoff holds by now (h): the value destructured at line 35
adoptedExpiresAt(raw, h) == raw.expiresAt

\* Lines 31-33: the test of the tab's own token and the read of the record.
ConsumeRead(t) ==
  /\ pc[t] = "boot"
  /\ IF ss[t].gc_access_token # NULL
     THEN /\ pc' = [pc EXCEPT ![t] = "consumed"]
          /\ cons' = [cons EXCEPT ![t] =
                        [ran |-> TRUE, hadSession |-> TRUE, raw |-> NoHandoff,
                         at |-> now, before |-> ss[t], after |-> ss[t],
                         left |-> handoff]]
     ELSE IF handoff.kind = "null"
     THEN /\ pc' = [pc EXCEPT ![t] = "consumed"]
          /\ cons' = [cons EXCEPT ![t] =
                        [ran |-> TRUE, hadSession |-> FALSE, raw |-> handoff,
                         at |-> now, before |-> ss[t], after |-> ss[t],
                         left |-> handoff]]
     ELSE /\ pc' = [pc EXCEPT ![t] = "c_parse"]
          /\ cons' = [cons EXCEPT ![t] =
                        [NoCons EXCEPT !.raw = handoff, !.before = ss[t]]]
  /\ UNCHANGED << now, config, ss, handoff, url, tok, res, navTo, apiClient,
                  timers, routerStarted, fatal, loads, bootUrl, consumeLog,
                  tokenReqs, meReqs, meOk, inflight, initiates, written, failed,
                  sent, lastInit, events >>

\* Lines 35-37: JSON.parse of the text read, and the test of its age, which
\* removes a stale record and returns.
ConsumeParse(t) ==
  /\ pc[t] = "c_parse"
  /\ LET raw == cons[t].raw
     IN IF raw.kind # "json"
        THEN /\ pc' = [pc EXCEPT ![t] = "c_remove"]
             /\ cons' = [cons EXCEPT ![t].at = now]
             /\ UNCHANGED handoff
        ELSE IF now - raw.ts > HandoffMaxAgeMs
        THEN /\ handoff' = NoHandoff
             /\ pc' = [pc EXCEPT ![t] = "consumed"]
             /\ cons' = [cons EXCEPT ![t].ran = TRUE, ![t].at = now,
                                     ![t].after = ss[t], ![t].left = NoHandoff]
        ELSE /\ pc' = [pc EXCEPT ![t] = "c_token"]
             /\ cons' = [cons EXCEPT ![t].at = now]
             /\ UNCHANGED handoff
  /\ UNCHANGED << now, config, ss, url, tok, res, navTo, apiClient, timers,
                  routerStarted, fatal, loads, bootUrl, consumeLog, tokenReqs,
                  meReqs, meOk, inflight, initiates, written, failed, sent,
                  lastInit, events >>

\* Line 38: sessionStorage.setItem(K_ACCESS_TOKEN, token).
ConsumeToken(t) ==
  /\ pc[t] = "c_token"
  /\ ss' = [ss EXCEPT ![t].gc_access_token = cons[t].raw.token]
  /\ pc' = [pc EXCEPT ![t] = "c_expiry"]
  /\ UNCHANGED << now, config, handoff, url, tok, res, navTo, apiClient, timers,
                  routerStarted, fatal, loads, bootUrl, cons, consumeLog,
                  tokenReqs, meReqs, meOk, inflight, initiates, written, failed,
                  sent, lastInit, events >>

\* Line 39: sessionStorage.setItem(K_EXPIRES_AT, expiresAt).
ConsumeExpiry(t) ==
  /\ pc[t] = "c_expiry"
  /\ ss' = [ss EXCEPT ![t].gc_expires_at = adoptedExpiresAt(cons[t].raw, handoff)]
  /\ pc' = [pc EXCEPT ![t] = "c_remove"]
  /\ UNCHANGED << now, config, handoff, url, tok, res, navTo, apiClient, timers,
                  routerStarted, fatal, loads, bootUrl, cons, consumeLog,
                  tokenReqs, meReqs, meOk, inflight, initiates, written, failed,
                  sent, lastInit, events >>

\* Line 41: localStorage.removeItem(K_HANDOFF), after the writes or the catch.
ConsumeRemove(t) ==
  /\ pc[t] = "c_remove"
  /\ handoff' = NoHandoff
  /\ pc' = [pc EXCEPT ![t] = "consumed"]
  /\ cons' = [cons EXCEPT ![t].ran = TRUE, ![t].after = ss[t],
                          ![t].left = NoHandoff]
  /\ UNCHANGED << now, config, ss, url, tok, res, navTo, apiClient, timers,
                  routerStarted, fatal, loads, bootUrl, consumeLog, tokenReqs,
                  meReqs, meOk, inflight, initiates, written, failed, sent,
                  lastInit, events >>

RaceNext ==
  \/ \E d \in TimePoints : Tick(d)
  \/ \E t \in Tabs : ConsumeRead(t)
  \/ \E t \in Tabs : ConsumeParse(t)
  \/ \E t \in Tabs : ConsumeToken(t)
  \/ \E t \in Tabs : ConsumeExpiry(t)
  \/ \E t \in Tabs : ConsumeRemove(t)

RaceSpec == RaceInit /\ [][RaceNext]_vars

\* both tabs started without a Session Record and both consume steps are over
RaceOver == \A t \in Tabs : pc[t] = "consumed" /\ ~cons[t].hadSession

\* tab t adopted the record it read
Adopted(t) ==
  /\ cons[t].raw.kind = "json"
  /\ cons[t].at - cons[t].raw.ts <= HandoffMaxAgeMs
  /\ ss[t] = [cons[t].before EXCEPT !.gc_access_token = cons[t].raw.token,
                                    !.gc_expires_at = cons[t].raw.expiresAt]

\* C24: two tabs without a Session Record run the consume step on one Handoff
\* Record with their storage operations interleaved in any order: in every
\* final state no Handoff Record is stored, and each tab's Token Store is
\* either as empty as before or holds exactly the token and the expiresAt of
\* the record that tab read, all tabs having read the same record; no token
\* is paired with the expiresAt of anything else.
C24_ConcurrentConsume ==
  RaceOver =>
    /\ handoff = NoHandoff
    /\ \A t \in Tabs : ss[t] = EmptySession \/ Adopted(t)
    /\ \A t, u \in Tabs :
         (cons[t].raw.kind = "json" /\ cons[u].raw.kind = "json")
           => cons[t].raw = cons[u].raw

\* both tabs adopted the same fresh record
C24_Witness ==
  /\ RaceOver
  /\ \A t \in Tabs : Adopted(t) /\ ss[t].gc_access_token = "tok1"
  /\ handoff = NoHandoff

----------------------------------------------------------------------------
(* Initiate, order of the boot steps, reload after the return leg *)

\* C25: a run of Initiate that does not throw has stored the Pending
\* Authorization {verifier, state} of its own draw when it navigates, and the
\* state parameter of the authorization URL is the stored state; a run that
\* throws navigates nowhere; and no tab has navigated to the identity provider
\* without the matching Pending Authorization being stored.
C25_PendingStoredBeforeNavigation ==
  /\ \A t \in Tabs, rnd \in RandomDraws :
       LET r == startLoginRedirect(config, ss[t], rnd.verifier, rnd.state)
       IN IF r.threw
          THEN r.nav = NoNav /\ r.ss = ss[t]
          ELSE /\ r.nav.to = "authorize"
               /\ r.nav.state = rnd.state
               /\ r.ss.oauth_state = r.nav.state
               /\ r.ss.pkce_verifier = rnd.verifier
  /\ \A t \in Tabs :
       navTo[t].to = "authorize" =>
         /\ ss[t].oauth_state # NULL
         /\ ss[t].oauth_state = navTo[t].state
         /\ ss[t].pkce_verifier # NULL
         /\ lastInit[t] = [verifier |-> ss[t].pkce_verifier,
                           state |-> ss[t].oauth_state]

\* a boot has run Initiate once and main has returned on "redirecting"
C25_Witness ==
  \E t \in Tabs :
    /\ pc[t] = "done"
    /\ res[t].status = "redirecting"
    /\ initiates[t] = 1
    /\ navTo[t].to = "authorize"
    /\ navTo[t].state = "S2"
    /\ ss[t].oauth_state = "S2"

\* C26: a code in the URL takes precedence over an existing session: a boot
\* whose URL carries a code never takes the token-reuse step, even if the Token
\* Store (own, or just adopted from a handoff) holds a token passing the
\* validity check; it sends an identity check only for the token of its own
\* exchange, returns authenticated only after that exchange, and on a state
\* mismatch the valid Session Record is removed.
C26_CodeTakesPrecedence ==
  \A t \in Tabs :
    (cons[t].ran /\ bootUrl[t].code # NULL) =>
      /\ pc[t] # "identB"
      /\ meReqs[t] # << >> =>
           written[t].done /\ meReqs[t] = << written[t].access_token >>
      /\ res[t].status = "authenticated" => written[t].done
      /\ (ValidAtBoot(t) /\ StateMismatch(t)) => NoSessionRecord(t)

\* a boot with a code and a state mismatch in a tab holding its own valid
\* Session Record: the record is gone
C26_Witness ==
  \E t \in Tabs :
    /\ StateMismatch(t)
    /\ ValidAtBoot(t)
    /\ cons[t].hadSession
    /\ Returned(t)
    /\ NoSessionRecord(t)
    /\ meReqs[t] = << >>

\* the boot of tab t has exchanged its code and returned authenticated
ReturnLegDone(t) ==
  /\ Returned(t)
  /\ bootUrl[t].code # NULL
  /\ written[t].done
  /\ res[t].status = "authenticated"

\* the step a boot of tab t would take at the instant t0 with the URL and the
\* storage as they are
ReloadPath(t, t0) ==
  bootPath(url[t], getValidAccessToken(consumeTabHandoff(ss[t], handoff, t0).ss, t0))

----------------------------------------------------------------------------
(* Termination of the boot *)

\* The boots of one tab under any CONFIG, without the timers of the page.
LiveNext ==
  \/ \E d \in PageTimes : Tick(d)
  \/ \E t \in PageTabs, u \in PageUrls : Load(t, u)
  \/ \E c \in Configs : Deploy(c)
  \/ \E t \in PageTabs : Boot(t)
  \/ \E t \in PageTabs, r \in PageResponses : ExchangeSettle(t, r)
  \/ \E t \in PageTabs, ok \in BOOLEAN : IdentSettle(t, ok)
  \/ \E t \in PageTabs : MainResume(t)
  \/ \E t \in PageTabs : MainStart(t)

\* A loaded page runs its script, and every request of the boot settles.
LiveSpec ==
  /\ Init
  /\ [][LiveNext]_vars
  /\ \A t \in PageTabs :
       /\ WF_vars(Boot(t))
       /\ WF_vars(\E r \in PageResponses : ExchangeSettle(t, r))
       /\ WF_vars(\E ok \in BOOLEAN : IdentSettle(t, ok))

\* ensureAuthenticatedWithMe is running in tab t
Booting(t) == pc[t] \in {"boot", "exchanging", "identA", "identB"}

\* ensureAuthenticatedWithMe has returned or thrown in tab t
Finished(t) ==
  /\ Returned(t)
  /\ inflight[t] = "none"
  /\ res[t].status \in {"authenticated", "redirecting", "error"}

\* C28: if every request of the boot settles, every run of
\* ensureAuthenticatedWithMe finishes: authenticated, redirecting, or the
\* configuration error of Initiate; and a boot sends at most one request to
\* the token endpoint and at most one identity check, and runs Initiate at
\* most once (no failed step is tried again in place).
C28_BootTerminates ==
  /\ [](\A t \in Tabs :
          /\ tokenReqs[t] <= 1
          /\ Len(meReqs[t]) <= 1
          /\ Booting(t) => initiates[t] = 0)
  /\ \A t \in PageTabs : Booting(t) ~> Finished(t)

\* a boot that sent one request to each endpoint and ended redirecting after
\* the failure of the identity check
C28_Witness ==
  \E t \in Tabs :
    /\ Finished(t)
    /\ tokenReqs[t] = 1
    /\ Len(meReqs[t]) = 1
    /\ failed[t] = "identity"
    /\ res[t].status = "redirecting"

----------------------------------------------------------------------------
(* The token returned by the boot, the pairs of the Token Store *)

\* ensureAuthenticatedWithMe returns authenticated in tab t in this step
ReturnsAuthenticated(t) ==
  /\ pc[t] \in {"identA", "identB"}
  /\ pc'[t] = "main"
  /\ res'[t].status = "authenticated"

\* C29 as stated: at the moment ensureAuthenticatedWithMe returns
\* authenticated with token T, getValidAccessToken() returns T, for every
\* expires_in and every duration of the identity check.
C29_ReturnedTokenIsValid ==
  [][\A t \in Tabs :
       ReturnsAuthenticated(t) =>
         getValidAccessToken(ss'[t], now') = res'[t].accessToken]_vars

\* C29, amended: at that moment the Token Store holds T, unchanged since the
\* identity check was sent, and T has passed the identity check of this boot;
\* getValidAccessToken() returns T if now < expiresAt - 60000 at that moment
\* and null otherwise. On the reuse path T passed the validity check when the
\* boot began.
C29_ReturnedTokenIsStored ==
  [][\A t \in Tabs :
       ReturnsAuthenticated(t) =>
         /\ res'[t].accessToken # NULL
         /\ ss'[t].gc_access_token = res'[t].accessToken
         /\ ss'[t] = ss[t]
         /\ res'[t].accessToken \in meOk'[t]
         /\ ss'[t].gc_expires_at.kind = "dec"
         /\ getValidAccessToken(ss'[t], now') =
              IF now' < ss'[t].gc_expires_at.n - EXPIRY_SKEW_MS
              THEN res'[t].accessToken ELSE NULL
         /\ pc[t] = "identB" => cons[t].at < ss'[t].gc_expires_at.n - EXPIRY_SKEW_MS]_vars

\* authenticated has been returned with a stored token that the validity
\* check rejects
C29_Witness ==
  \E t \in Tabs :
    /\ Returned(t)
    /\ res[t].status = "authenticated"
    /\ ss[t].gc_access_token = res[t].accessToken
    /\ res[t].accessToken \in meOk[t]
    /\ getValidAccessToken(ss[t], now) = NULL

\* the pairs (token, expiresAt) that setToken writes for the answers of the
\* token endpoint at the instants of Spec
IssuedPairs ==
  {<< setToken(EmptySession, g, t0).gc_access_token,
      setToken(EmptySession, g, t0).gc_expires_at >> :
     g \in TokenGrants, t0 \in TimePoints}

\* C30: across login, publish and consume in all tabs, every stored Session
\* Record and every Handoff Record holds a token together with an expiresAt
\* that setToken computed for that token after a code exchange: publish copies
\* both from the Token Store, adoption copies both from the record, and an
\* adopted session becomes invalid at the instant the record says.
C30_PairsAreIssued ==
  /\ \A t \in Tabs :
       \/ NoSessionRecord(t)
       \/ << ss[t].gc_access_token, ss[t].gc_expires_at >> \in IssuedPairs
  /\ handoff.kind = "json" =>
       << handoff.token, handoff.expiresAt >> \in IssuedPairs
  /\ \A t \in Tabs :
       LET p == saveTabHandoff(ss[t], handoff, now)
       IN ~NoSessionRecord(t) =>
            /\ p.token = ss[t].gc_access_token
            /\ p.expiresAt = ss[t].gc_expires_at
  /\ \A t \in Tabs :
       (cons[t].ran /\ cons[t].after # cons[t].before) =>
         /\ cons[t].after.gc_access_token = cons[t].raw.token
         /\ cons[t].after.gc_expires_at = cons[t].raw.expiresAt

\* a tab holds the pair it adopted from a record published after the token
\* was written, the publishing tab still holding the same pair
C30_Witness ==
  \E t, u \in Tabs :
    /\ t # u
    /\ cons[t].ran
    /\ cons[t].after # cons[t].before
    /\ cons[t].raw.ts > 0
    /\ cons[t].at > cons[t].raw.ts
    /\ ss[t].gc_access_token # NULL
    /\ ss[t].gc_access_token = ss[u].gc_access_token
    /\ ss[t].gc_expires_at = ss[u].gc_expires_at

====
